---- MODULE Spec2Model ----
(***************************************************************************)
(* Model of the stateful core of LuminaLib (src/App.tsx): the playback     *)
(* controller, the search/history log, favorites and journals, the capture *)
(* controller and the hydration of the persisted collections.              *)
(*                                                                         *)
(* The browser runs one task at a time: every action below is one task of  *)
(* the event loop (a user event, the settlement of a promise together with *)
(* the continuation it wakes, or a media callback).  React state is read   *)
(* by handlers from the latest render, so the state variables hold the     *)
(* committed values.                                                       *)
(***************************************************************************)
EXTENDS Integers, Sequences, FiniteSets

\* ---------------------------------------------------------------- bounds
MaxReq == 3        \* startAudioPlayback calls issued in one behaviour
MaxCtxOps == 2     \* AudioContext suspend()/resume() calls not yet settled
MaxNow == 1        \* milliseconds the clock advances in one behaviour
MaxPending == 2    \* searchBookDetails calls awaited at the same time
MaxIssued == 51    \* searches issued in the insertion scenario
MaxSearches == 2   \* entries of history plus searches awaited, overlapping searches
MaxRec == 2        \* recordings asked for in one session
MaxPlaySearches == 1  \* entries of history, searches during playback
MaxPlayReq == 2    \* startAudioPlayback calls issued, searches during playback
MaxStoreSearches == 1  \* entries of history, all collections together
MaxPart001Req == 2 \* startAudioPlayback calls issued, controller of part_001

\* ------------------------------------------------------- program constants
HistoryCap == 50   \* App.tsx:288, slice(0, 50)

VARIABLES
  isAudioLockedRef,       \* App.tsx:154
  isPlayingAudio,         \* App.tsx:118
  isAudioPaused,          \* App.tsx:119
  isAudioLoading,         \* App.tsx:120
  activeAudioSourceRef,   \* App.tsx:153, 0 is null, k is the source of call k
  ctxState,               \* audioContextRef.current: "none" is null
  ctxQ,                   \* suspend()/resume() promises not yet settled, FIFO
  req,                    \* position of each startAudioPlayback call
  src,                    \* state of the AudioBufferSourceNode of each call
  lastOp,                 \* the playback handler that ran last
  stopRun,                \* consecutive stopAudio calls just made (capped)
  stopFrom,               \* playback state the current run of stops began in
  stopCalled,             \* stopAudio has run at least once
  lockRejected,           \* some handleAudioToggle call returned at the lock check
  afterStop,              \* of each call: "stopped" if stopAudio ran while it was pending,
                          \* "toggled" if handleAudioToggle ran after that, else "none"
  searchQuery,            \* App.tsx:96
  isSearching,            \* App.tsx:97
  searchResult,           \* App.tsx:98, <<>> is null, <<r>> is the result r
  pending,                \* searchBookDetails calls awaited, in issue order
  history,                \* App.tsx:132
  now,                    \* Date.now()
  lastAlert,              \* the alert() of the last settled call, "" if it showed none
  searchFailed,           \* the searchBookDetails call that settled last was rejected
  lastIssued,             \* queryToUse of the handleSearch call that searched last
  favorites,              \* App.tsx:122
  journals,               \* App.tsx:127
  newJournalName,         \* App.tsx:139
  isCreatingJournal,      \* App.tsx:138
  movingBookTitle,        \* App.tsx:140, <<>> is null, <<t>> is the title t
  lastLib,                \* what the last favorites/journals handler did
  storage,                \* localStorage, the three collection keys
  phase,                  \* "boot" before the first render, then "mounted" or "crashed"
  isRecording,            \* App.tsx:115
  isTranscribing,         \* App.tsx:113
  mic,                    \* getUserMedia calls awaited
  mediaRecorderRef,       \* App.tsx:150, 0 is null, k is the k-th MediaRecorder
  audioChunksRef,         \* App.tsx:151, the number of chunks in the array
  rec,                    \* position of each MediaRecorder and of its callbacks
  blob,                   \* chunks in the Blob built by onstop of each recorder
  transcribed,            \* what transcribeAudio answered for each recorder
  detailsCall,            \* a call of searchBookDetails: which definition, query, response text
  bookDetails             \* what that call of searchBookDetails returned

audioVars == <<isAudioLockedRef, isPlayingAudio, isAudioPaused, isAudioLoading,
               activeAudioSourceRef, ctxState, ctxQ, req, src, lastOp, stopRun,
               stopFrom, stopCalled, lockRejected, afterStop>>

searchVars == <<searchQuery, isSearching, searchResult, pending, history, now,
                lastAlert, searchFailed, lastIssued>>

libVars == <<favorites, journals, newJournalName, isCreatingJournal, movingBookTitle,
             lastLib>>

captureVars == <<isRecording, isTranscribing, mic, mediaRecorderRef, audioChunksRef,
                 rec, blob, transcribed>>

detailVars == <<detailsCall, bookDetails>>

vars == <<audioVars, searchVars, libVars, storage, phase, captureVars, detailVars>>

\* ------------------------------------------------------------------ strings
\* A string is a sequence of characters; a character is an integer: 0 is a
\* blank, n > 0 a lower-case letter and -n the same letter in upper case.

Min(a, b) == IF a < b THEN a ELSE b

RECURSIVE TrimStart(_)
\* String.prototype.trimStart
TrimStart(s) ==
  IF s # <<>> /\ Head(s) = 0 THEN TrimStart(Tail(s)) ELSE s

RECURSIVE TrimEnd(_)
\* String.prototype.trimEnd
TrimEnd(s) ==
  IF s # <<>> /\ s[Len(s)] = 0 THEN TrimEnd(SubSeq(s, 1, Len(s) - 1)) ELSE s

\* String.prototype.trim
Trim(s) == TrimEnd(TrimStart(s))

\* String.prototype.toLowerCase
ToLowerCase(s) == [i \in 1..Len(s) |-> IF s[i] < 0 THEN -s[i] ELSE s[i]]

RECURSIVE ToDecimal(_)
\* Number.prototype.toString of a non-negative integer: its decimal digits
ToDecimal(n) ==
  IF n < 10 THEN <<n>> ELSE Append(ToDecimal(n \div 10), n % 10)

\* --------------------------------------------------------------------- JSON
\* A JSON text is a sequence of tokens [t, v]: the brackets, the comma, one
\* token Item(x) for each serialized element x, and Junk for any text that
\* is not JSON.
LB == [t |-> "[", v |-> <<>>]
RB == [t |-> "]", v |-> <<>>]
COMMA == [t |-> ",", v |-> <<>>]
Junk == [t |-> "junk", v |-> <<>>]
Item(x) == [t |-> "item", v |-> x]

\* JSON.stringify of an array: the elements in order, separated by commas,
\* between brackets
Stringify(list) ==
  IF list = <<>> THEN <<LB, RB>>
  ELSE [i \in 1..(2 * Len(list) + 1) |->
          IF i = 1 THEN LB
          ELSE IF i = 2 * Len(list) + 1 THEN RB
          ELSE IF i % 2 = 0 THEN Item(list[i \div 2])
          ELSE COMMA]

RECURSIVE ParseItems(_)
\* the elements between the brackets: [ok, value]
ParseItems(toks) ==
  IF toks = <<>> THEN [ok |-> FALSE, value |-> <<>>]
  ELSE IF toks[1].t # "item" THEN [ok |-> FALSE, value |-> <<>>]
  ELSE IF Len(toks) = 1 THEN [ok |-> TRUE, value |-> <<toks[1].v>>]
  ELSE IF toks[2].t # "," THEN [ok |-> FALSE, value |-> <<>>]
  ELSE LET rest == ParseItems(SubSeq(toks, 3, Len(toks)))
       IN [ok |-> rest.ok, value |-> IF rest.ok THEN <<toks[1].v>> \o rest.value ELSE <<>>]

\* JSON.parse of a text expected to hold an array: ok is FALSE where
\* JSON.parse throws a SyntaxError
Parse(toks) ==
  IF Len(toks) < 2 \/ toks[1].t # "[" \/ toks[Len(toks)].t # "]"
    THEN [ok |-> FALSE, value |-> <<>>]
  ELSE IF Len(toks) = 2 THEN [ok |-> TRUE, value |-> <<>>]
  ELSE ParseItems(SubSeq(toks, 2, Len(toks) - 1))

Reqs == 1..MaxReq
Recs == 1..MaxRec

\* ------------------------------------------------------- playback controller

\* a call of startAudioPlayback is suspended at one of its awaits
Pending(k) == req[k] \in {"speak", "resume", "decode"}

\* the calls that stopAudio finds pending are marked
MarkStopped == [k \in Reqs |-> IF Pending(k) THEN "stopped" ELSE afterStop[k]]

\* the calls that handleAudioToggle finds pending and marked are marked again
MarkToggled ==
  [k \in Reqs |-> IF Pending(k) /\ afterStop[k] = "stopped" THEN "toggled"
                                                            ELSE afterStop[k]]

\* the mark call k keeps once it has returned
MarkReturned(k) ==
  [afterStop EXCEPT ![k] = IF afterStop[k] = "toggled" THEN "none" ELSE afterStop[k]]

\* the state of section 4.1's state machine, as the status line renders it
PlaybackState ==
  IF isAudioLoading THEN "Loading"
  ELSE IF isPlayingAudio THEN (IF isAudioPaused THEN "Paused" ELSE "Playing")
  ELSE "Idle"

\* AudioBufferSourceNode.stop(): a started source stops and its ended event
\* is queued; on a source that already ended it changes nothing
StopSource(s, k) ==
  IF k # 0 /\ s[k] = "playing" THEN [s EXCEPT ![k] = "ended"] ELSE s

\* stopAudio without the reset of the paused flag
stopAudioKeepsPaused ==
  /\ src' = StopSource(src, activeAudioSourceRef)
  /\ activeAudioSourceRef' = 0
  /\ IF ctxState = "suspended"
       THEN ctxQ' = Append(ctxQ, [kind |-> "resume", cont |-> "stopAudio", k |-> 0])
       ELSE ctxQ' = ctxQ
  /\ isPlayingAudio' = FALSE
  /\ isAudioPaused' = isAudioPaused
  /\ isAudioLoading' = FALSE
  /\ isAudioLockedRef' = FALSE

\* stopAudio leaving the source alone
stopAudioKeepsSource ==
  /\ src' = src
  /\ activeAudioSourceRef' = activeAudioSourceRef
  /\ IF ctxState = "suspended"
       THEN ctxQ' = Append(ctxQ, [kind |-> "resume", cont |-> "stopAudio", k |-> 0])
       ELSE ctxQ' = ctxQ
  /\ isPlayingAudio' = FALSE
  /\ isAudioPaused' = FALSE
  /\ isAudioLoading' = FALSE
  /\ isAudioLockedRef' = FALSE

\* stopAudio without the release of the lock
stopAudioKeepsLock ==
  /\ src' = StopSource(src, activeAudioSourceRef)
  /\ activeAudioSourceRef' = 0
  /\ IF ctxState = "suspended"
       THEN ctxQ' = Append(ctxQ, [kind |-> "resume", cont |-> "stopAudio", k |-> 0])
       ELSE ctxQ' = ctxQ
  /\ isPlayingAudio' = FALSE
  /\ isAudioPaused' = FALSE
  /\ isAudioLoading' = FALSE
  /\ isAudioLockedRef' = isAudioLockedRef

\* the state stopAudio leaves behind
stopAudio ==
  /\ src' = StopSource(src, activeAudioSourceRef)
  /\ activeAudioSourceRef' = 0
  /\ IF ctxState = "suspended"
       THEN ctxQ' = Append(ctxQ, [kind |-> "resume", cont |-> "stopAudio", k |-> 0])
       ELSE ctxQ' = ctxQ
  /\ isPlayingAudio' = FALSE
  /\ isAudioPaused' = FALSE
  /\ isAudioLoading' = FALSE
  /\ isAudioLockedRef' = FALSE

\* stop button, home/tab navigation
StopAudio ==
  /\ ctxState = "suspended" => Len(ctxQ) < MaxCtxOps
  /\ stopAudio
  /\ lastOp' = "stopAudio"
  /\ UNCHANGED <<searchVars, libVars, storage, phase, captureVars, detailVars>>
  /\ stopRun' = IF stopRun < 2 THEN stopRun + 1 ELSE 2
  /\ stopFrom' = IF stopRun = 0 THEN PlaybackState ELSE stopFrom
  /\ stopCalled' = TRUE
  /\ afterStop' = MarkStopped
  /\ UNCHANGED lockRejected
  /\ UNCHANGED <<ctxState, req>>

pauseAudio ==
  IF ctxState = "running"
    THEN ctxQ' = Append(ctxQ, [kind |-> "suspend", cont |-> "pauseAudio", k |-> 0])
    ELSE ctxQ' = ctxQ

resumeAudio ==
  IF ctxState = "suspended"
    THEN ctxQ' = Append(ctxQ, [kind |-> "resume", cont |-> "resumeAudio", k |-> 0])
    ELSE ctxQ' = ctxQ

\* startAudioPlayback taking the lock only after the await
startAudioPlaybackLateLock(k) ==
  /\ isAudioLockedRef' = isAudioLockedRef
  /\ isAudioLoading' = TRUE
  /\ req' = [req EXCEPT ![k] = "speak"]

\* the synchronous head of startAudioPlayback, up to await speakText
startAudioPlayback(k) ==
  /\ isAudioLockedRef' = TRUE
  /\ isAudioLoading' = TRUE
  /\ req' = [req EXCEPT ![k] = "speak"]

FreeReq == {k \in Reqs : req[k] = "idle"}
NextReq == CHOOSE k \in FreeReq : \A j \in FreeReq : k <= j

\* handleAudioToggle(text): hasText is whether text is a non-empty string
HandleAudioToggle(hasText) ==
  /\ lastOp' = "handleAudioToggle"
  /\ UNCHANGED <<searchVars, libVars, storage, phase, captureVars, detailVars>>
  /\ stopRun' = 0
  /\ lockRejected' = (lockRejected \/ isAudioLockedRef)
  /\ UNCHANGED <<stopFrom, stopCalled>>
  /\ afterStop' = MarkToggled
  /\ IF isAudioLockedRef
       THEN UNCHANGED <<isAudioLockedRef, isAudioLoading, req, ctxQ>>
       ELSE IF isPlayingAudio
         THEN /\ Len(ctxQ) < MaxCtxOps
              /\ IF isAudioPaused THEN resumeAudio ELSE pauseAudio
              /\ UNCHANGED <<isAudioLockedRef, isAudioLoading, req>>
         ELSE IF hasText
           THEN /\ FreeReq # {}
                /\ startAudioPlayback(NextReq)
                /\ ctxQ' = ctxQ
           ELSE UNCHANGED <<isAudioLockedRef, isAudioLoading, req, ctxQ>>
  /\ UNCHANGED <<isPlayingAudio, isAudioPaused, activeAudioSourceRef, ctxState, src>>

\* a failure path that clears the loading flag and keeps the lock
startFailedKeepsLock(k) ==
  /\ isAudioLoading' = FALSE
  /\ isAudioLockedRef' = isAudioLockedRef
  /\ req' = [req EXCEPT ![k] = "done"]

\* the else branch and the catch block of startAudioPlayback
startFailed(k) ==
  /\ isAudioLoading' = FALSE
  /\ isAudioLockedRef' = FALSE
  /\ req' = [req EXCEPT ![k] = "done"]

\* speakText settles: with audio, with undefined, or by rejecting
SpeakSettles(k, outcome) ==
  /\ req[k] = "speak"
  /\ lastOp' = IF outcome = "audio" THEN "speakSettles" ELSE "startFailed"
  /\ UNCHANGED <<searchVars, libVars, storage, phase, captureVars, detailVars>>
  /\ stopRun' = 0
  /\ UNCHANGED <<stopFrom, stopCalled, lockRejected>>
  /\ afterStop' = IF outcome = "audio" THEN afterStop ELSE MarkReturned(k)
  /\ IF outcome = "audio"
       THEN /\ \E created \in (IF ctxState = "none" THEN {"running", "suspended"}
                                                      ELSE {ctxState}) :
                 /\ ctxState' = created
                 /\ IF created = "suspended"
                      THEN /\ Len(ctxQ) < MaxCtxOps
                           /\ ctxQ' = Append(ctxQ, [kind |-> "resume", cont |-> "start", k |-> k])
                           /\ req' = [req EXCEPT ![k] = "resume"]
                      ELSE /\ ctxQ' = ctxQ
                           /\ req' = [req EXCEPT ![k] = "decode"]
            /\ UNCHANGED <<isAudioLoading, isAudioLockedRef>>
       ELSE /\ startFailed(k)
            /\ UNCHANGED <<ctxState, ctxQ>>
  /\ UNCHANGED <<isPlayingAudio, isAudioPaused, activeAudioSourceRef, src>>

\* the oldest suspend()/resume() promise settles and its continuation runs
CtxOpSettles ==
  /\ ctxQ # <<>>
  /\ LET op == Head(ctxQ) IN
       /\ ctxState' = IF op.kind = "suspend" THEN "suspended" ELSE "running"
       /\ isAudioPaused' = IF op.cont = "pauseAudio" THEN TRUE
                           ELSE IF op.cont = "resumeAudio" THEN FALSE
                           ELSE isAudioPaused
       /\ req' = IF op.cont = "start" THEN [req EXCEPT ![op.k] = "decode"] ELSE req
  /\ ctxQ' = Tail(ctxQ)
  /\ lastOp' = "ctxOpSettles"
  /\ UNCHANGED <<searchVars, libVars, storage, phase, captureVars, detailVars>>
  /\ stopRun' = 0
  /\ UNCHANGED <<stopFrom, stopCalled, lockRejected, afterStop>>
  /\ UNCHANGED <<isAudioLockedRef, isPlayingAudio, isAudioLoading,
                 activeAudioSourceRef, src>>

\* decodeAudioData settles and the rest of startAudioPlayback runs
DecodeSettles(k, ok) ==
  /\ req[k] = "decode"
  /\ lastOp' = IF ok THEN "decodeSettles" ELSE "startFailed"
  /\ UNCHANGED <<searchVars, libVars, storage, phase, captureVars, detailVars>>
  /\ stopRun' = 0
  /\ UNCHANGED <<stopFrom, stopCalled, lockRejected>>
  /\ afterStop' = MarkReturned(k)
  /\ IF ~ok
       THEN /\ startFailed(k)
            /\ UNCHANGED <<isPlayingAudio, isAudioPaused, activeAudioSourceRef, src>>
       ELSE IF ~isAudioLockedRef
         THEN /\ req' = [req EXCEPT ![k] = "done"]
              /\ UNCHANGED <<isAudioLockedRef, isAudioLoading, isPlayingAudio,
                             isAudioPaused, activeAudioSourceRef, src>>
         ELSE /\ activeAudioSourceRef' = k
              /\ isAudioLoading' = FALSE
              /\ isPlayingAudio' = TRUE
              /\ isAudioPaused' = FALSE
              /\ src' = [src EXCEPT ![k] = "playing"]
              /\ req' = [req EXCEPT ![k] = "done"]
              /\ UNCHANGED isAudioLockedRef
  /\ UNCHANGED <<ctxState, ctxQ>>

\* a started source plays its buffer to the end (time only advances while
\* the context runs); its ended event is queued
SourceEnds(k) ==
  /\ src[k] = "playing"
  /\ ctxState = "running"
  /\ src' = [src EXCEPT ![k] = "ended"]
  /\ lastOp' = "sourceEnds"
  /\ UNCHANGED <<searchVars, libVars, storage, phase, captureVars, detailVars>>
  /\ stopRun' = 0
  /\ UNCHANGED <<stopFrom, stopCalled, lockRejected, afterStop>>
  /\ UNCHANGED <<isAudioLockedRef, isPlayingAudio, isAudioPaused, isAudioLoading,
                 activeAudioSourceRef, ctxState, ctxQ, req>>

\* an onended callback that does not release the lock
OnEndedKeepsLock(k) ==
  /\ src[k] = "ended"
  /\ isPlayingAudio' = FALSE
  /\ isAudioPaused' = FALSE
  /\ activeAudioSourceRef' = 0
  /\ isAudioLockedRef' = isAudioLockedRef
  /\ src' = [src EXCEPT ![k] = "finished"]
  /\ lastOp' = "onended"
  /\ UNCHANGED <<searchVars, libVars, storage, phase, captureVars, detailVars>>
  /\ stopRun' = 0
  /\ UNCHANGED <<stopFrom, stopCalled, lockRejected, afterStop>>
  /\ UNCHANGED <<isAudioLoading, ctxState, ctxQ, req>>

\* source.onended of call k, after a natural end or after stop()
OnEnded(k) ==
  /\ src[k] = "ended"
  /\ isPlayingAudio' = FALSE
  /\ isAudioPaused' = FALSE
  /\ activeAudioSourceRef' = 0
  /\ isAudioLockedRef' = FALSE
  /\ src' = [src EXCEPT ![k] = "finished"]
  /\ lastOp' = "onended"
  /\ UNCHANGED <<searchVars, libVars, storage, phase, captureVars, detailVars>>
  /\ stopRun' = 0
  /\ UNCHANGED <<stopFrom, stopCalled, lockRejected, afterStop>>
  /\ UNCHANGED <<isAudioLoading, ctxState, ctxQ, req>>

AudioInit ==
  /\ isAudioLockedRef = FALSE
  /\ isPlayingAudio = FALSE
  /\ isAudioPaused = FALSE
  /\ isAudioLoading = FALSE
  /\ activeAudioSourceRef = 0
  /\ ctxState = "none"
  /\ ctxQ = <<>>
  /\ req = [k \in Reqs |-> "idle"]
  /\ src = [k \in Reqs |-> "none"]
  /\ lastOp = "init"
  /\ stopRun = 0
  /\ stopFrom = "none"
  /\ stopCalled = FALSE
  /\ lockRejected = FALSE
  /\ afterStop = [k \in Reqs |-> "none"]

EmptyStorage == [favorites |-> Stringify(<<>>), journals |-> Stringify(<<>>),
                 history |-> Stringify(<<>>)]

\* the application mounted on empty storage: every collection is empty and
\* the persistence effects have written them back
MountedInit ==
  /\ searchQuery = <<>>
  /\ isSearching = FALSE
  /\ searchResult = <<>>
  /\ pending = <<>>
  /\ history = <<>>
  /\ now = 0
  /\ lastAlert = ""
  /\ searchFailed = FALSE
  /\ lastIssued = <<>>
  /\ favorites = <<>>
  /\ journals = <<>>
  /\ newJournalName = <<>>
  /\ isCreatingJournal = FALSE
  /\ movingBookTitle = <<>>
  /\ lastLib = "none"
  /\ storage = EmptyStorage
  /\ phase = "mounted"

AudioNext ==
  \/ StopAudio
  \/ \E hasText \in BOOLEAN : HandleAudioToggle(hasText)
  \/ \E k \in Reqs, outcome \in {"audio", "none", "throw"} : SpeakSettles(k, outcome)
  \/ CtxOpSettles
  \/ \E k \in Reqs, ok \in BOOLEAN : DecodeSettles(k, ok)
  \/ \E k \in Reqs : SourceEnds(k)
  \/ \E k \in Reqs : OnEnded(k)

\* no recording was asked for yet
CaptureInit ==
  /\ isRecording = FALSE
  /\ isTranscribing = FALSE
  /\ mic = 0
  /\ mediaRecorderRef = 0
  /\ audioChunksRef = 0
  /\ rec = [k \in Recs |-> "none"]
  /\ blob = [k \in Recs |-> 0]
  /\ transcribed = [k \in Recs |-> [state |-> "none", value |-> <<>>]]

\* the metadata response that is not there: response.text is undefined
NoText == <<[t |-> "undefined", v |-> <<>>]>>

\* no call of searchBookDetails is looked at
DetailsIdle ==
  /\ detailsCall = [definition |-> "first", query |-> <<>>, text |-> NoText]
  /\ bookDetails = [state |-> "none"]

Init == AudioInit /\ MountedInit /\ CaptureInit /\ DetailsIdle
Next == AudioNext
Spec == Init /\ [][Next]_vars

\* ----------------------------------------------------------- search, history

\* the titles of the books at hand: "d", "D" and "e"
Titles == {<<1>>, <<-1>>, <<2>>}
Books == {[title |-> t] : t \in Titles}

\* Array.prototype.slice(0, n)
Slice0(s, n) == SubSeq(s, 1, Min(n, Len(s)))

\* s without its i-th element
RemoveAt(s, i) == SubSeq(s, 1, i - 1) \o SubSeq(s, i + 1, Len(s))

\* the BookResult searchBookDetails returns for a query: its title is the query
BookResult(q) == [title |-> q]

\* the persistence effect of App.tsx:178, run after a change of history
SaveHistory == storage' = [storage EXCEPT !.history = Stringify(history')]

\* handleSearch(e, overrideQuery) up to await searchBookDetails; the caller
\* says what happens to searchQuery
handleSearch(overrideQuery) ==
  LET queryToUse == IF overrideQuery # <<>> THEN overrideQuery ELSE searchQuery IN
  IF Trim(queryToUse) = <<>>
    THEN UNCHANGED <<audioVars, isSearching, searchResult, pending, lastIssued>>
    ELSE /\ ctxState = "suspended" => Len(ctxQ) < MaxCtxOps
         /\ isSearching' = TRUE
         /\ searchResult' = <<>>
         /\ stopAudio
         /\ lastOp' = "handleSearch"
         /\ stopRun' = 0
         /\ stopCalled' = TRUE
         /\ pending' = Append(pending, [query |-> queryToUse])
         /\ lastIssued' = queryToUse
         /\ stopFrom' = PlaybackState
         /\ afterStop' = MarkStopped
         /\ UNCHANGED <<ctxState, req, lockRejected>>

\* onChange of the search box
TypeQuery(q) ==
  /\ searchQuery' = q
  /\ UNCHANGED <<audioVars, isSearching, searchResult, pending, history, now,
                 lastAlert, searchFailed, lastIssued, libVars, storage, phase,
                 captureVars, detailVars>>

\* onSubmit of the search form
SubmitSearch ==
  /\ Len(pending) < MaxPending
  /\ handleSearch(<<>>)
  /\ UNCHANGED <<searchQuery, history, now, lastAlert, searchFailed, libVars,
                 storage, phase, captureVars, detailVars>>

\* a curated-book or recommendation button: setSearchQuery(book) and
\* handleSearch(undefined, book)
ClickBook(book) ==
  /\ Len(pending) < MaxPending
  /\ searchQuery' = book
  /\ handleSearch(book)
  /\ UNCHANGED <<history, now, lastAlert, searchFailed, libVars, storage, phase,
                 captureVars, detailVars>>

\* [entry, ...prev] without the slice
InsertNoCap(entry, prev) == <<entry>> \o prev

\* [entry, ...prev].slice(0, 50) keeping the 50 oldest instead
InsertKeepsOldest(entry, prev) ==
  IF Len(prev) < HistoryCap THEN <<entry>> \o prev ELSE prev

\* setHistory(prev => [entry, ...prev].slice(0, 50))
Insert(entry, prev) == Slice0(<<entry>> \o prev, HistoryCap)

\* a deletion that removes the newest entry, whatever the id given
DeleteNewest(id) ==
  /\ id \in {history[i].id : i \in 1..Len(history)}
  /\ history' = Tail(history)
  /\ SaveHistory
  /\ UNCHANGED <<audioVars, searchQuery, isSearching, searchResult, pending, now,
                 lastAlert, searchFailed, lastIssued, libVars, phase, captureVars,
                 detailVars>>

\* a settlement that logs the query of a failed search as well
SearchSettlesLogsFailure(i, ok) ==
  /\ i \in 1..Len(pending)
  /\ pending' = RemoveAt(pending, i)
  /\ isSearching' = FALSE
  /\ LET result == BookResult(pending[i].query)
         entry == [id |-> ToDecimal(now), query |-> pending[i].query,
                   timestamp |-> now, result |-> result]
     IN /\ history' = Insert(entry, history)
        /\ SaveHistory
        /\ IF ok
             THEN /\ searchResult' = <<result>>
                  /\ lastAlert' = ""
                  /\ searchFailed' = FALSE
             ELSE /\ lastAlert' = "Failed to find book details."
                  /\ searchFailed' = TRUE
                  /\ UNCHANGED searchResult
  /\ UNCHANGED <<audioVars, searchQuery, now, lastIssued, libVars, phase, captureVars,
                 detailVars>>

\* the i-th awaited searchBookDetails call settles and handleSearch resumes
SearchSettles(i, ok) ==
  /\ i \in 1..Len(pending)
  /\ pending' = RemoveAt(pending, i)
  /\ isSearching' = FALSE
  /\ IF ok
       THEN LET result == BookResult(pending[i].query)
                entry == [id |-> ToDecimal(now), query |-> pending[i].query,
                          timestamp |-> now, result |-> result]
            IN /\ searchResult' = <<result>>
               /\ history' = Insert(entry, history)
               /\ SaveHistory
               /\ lastAlert' = ""
               /\ searchFailed' = FALSE
       ELSE /\ lastAlert' = "Failed to find book details."
            /\ searchFailed' = TRUE
            /\ UNCHANGED <<searchResult, history, storage>>
  /\ UNCHANGED <<audioVars, searchQuery, now, lastIssued, libVars, phase, captureVars,
                 detailVars>>

\* clearHistory, confirmed is the answer to the confirm() dialog
ClearHistory(confirmed) ==
  /\ IF confirmed
       THEN history' = <<>> /\ SaveHistory
       ELSE UNCHANGED <<history, storage>>
  /\ UNCHANGED <<audioVars, searchQuery, isSearching, searchResult, pending, now,
                 lastAlert, searchFailed, lastIssued, libVars, phase, captureVars,
                 detailVars>>

\* deleteHistoryEntry(id), from the delete button of an entry
DeleteHistoryEntry(id) ==
  /\ id \in {history[i].id : i \in 1..Len(history)}
  /\ history' = SelectSeq(history, LAMBDA h : h.id # id)
  /\ SaveHistory
  /\ UNCHANGED <<audioVars, searchQuery, isSearching, searchResult, pending, now,
                 lastAlert, searchFailed, lastIssued, libVars, phase, captureVars,
                 detailVars>>

\* a millisecond passes
Tick ==
  /\ now < MaxNow
  /\ now' = now + 1
  /\ UNCHANGED <<audioVars, searchQuery, isSearching, searchResult, pending,
                 history, lastAlert, searchFailed, lastIssued, libVars, storage, phase,
                 captureVars, detailVars>>

HistoryIds == {history[i].id : i \in 1..Len(history)}

\* a search issued once the previous one has settled
SearchAgain ==
  /\ pending = <<>>
  /\ ClickBook(<<1>>)

\* the history log under every operation on it: searches of one query text,
\* one at a time, that succeed or fail, deletions and clearing
HistoryNext ==
  \/ Tick
  \/ SearchAgain
  \/ \E ok \in BOOLEAN : SearchSettles(1, ok)
  \/ \E id \in HistoryIds : DeleteHistoryEntry(id)
  \/ \E confirmed \in BOOLEAN : ClearHistory(confirmed)

SpecHistory == Init /\ [][HistoryNext]_vars

\* what can be typed in the search box: nothing, a blank, "d", " d", "e"
QueryInputs == {<<>>, <<0>>, <<1>>, <<0, 1>>, <<2>>}

\* overlapping searches: a search may be issued while others are awaited,
\* and the awaited calls settle in any order
SearchNext ==
  \/ \E q \in QueryInputs : TypeQuery(q)
  \/ Len(history) + Len(pending) < MaxSearches /\ SubmitSearch
  \/ \E book \in Titles :
        Len(history) + Len(pending) < MaxSearches /\ ClickBook(book)
  \/ Tick
  \/ \E i \in 1..MaxPending, ok \in BOOLEAN : SearchSettles(i, ok)
  \/ \E id \in HistoryIds : DeleteHistoryEntry(id)
  \/ \E confirmed \in BOOLEAN : ClearHistory(confirmed)

SpecSearch == Init /\ [][SearchNext]_vars

\* the number of the last query issued in the insertion scenario
Issued == IF searchQuery = <<>> THEN 0 ELSE searchQuery[1]

\* the next of MaxIssued different queries, issued once the previous search
\* has settled
IssueNext ==
  /\ pending = <<>>
  /\ Issued < MaxIssued
  /\ ClickBook(<<Issued + 1>>)

SettleOk == SearchSettles(1, TRUE)

\* the insertion scenario: successful searches, one after the other
InsertNext == IssueNext \/ SettleOk \/ Tick

SpecInsert == Init /\ [][InsertNext]_vars

\* ------------------------------------------------------- favorites, journals

\* what can be typed as the name of a journal: nothing, a blank, "d"
JournalNames == {<<>>, <<0>>, <<1>>}

\* no modal covers the page (both modals are fixed full-page overlays)
NoModal == movingBookTitle = <<>> /\ ~isCreatingJournal

\* a persistence effect that writes the favorites of before the change
SaveFavoritesStale(st) == [st EXCEPT !.favorites = Stringify(favorites)]

\* the persistence effects of App.tsx:176-177
SaveFavorites(st) == [st EXCEPT !.favorites = Stringify(favorites')]
SaveJournals(st) == [st EXCEPT !.journals = Stringify(journals')]

\* title equality as toggleFavorite tests it
SameTitle(a, b) == ToLowerCase(a) = ToLowerCase(b)

\* Array.prototype.map over the journals, replacing bookTitles
MapTitles(js, f(_)) ==
  [i \in 1..Len(js) |-> [js[i] EXCEPT !.bookTitles = f(js[i])]]

\* toggleFavorite leaving the journals alone
toggleFavoriteNoCascade(book) ==
  IF \E i \in 1..Len(favorites) : SameTitle(favorites[i].title, book.title)
    THEN /\ journals' = journals
         /\ favorites' = SelectSeq(favorites, LAMBDA f : ~SameTitle(f.title, book.title))
    ELSE /\ favorites' = <<book>> \o favorites
         /\ journals' = journals

\* toggleFavorite whose cascade compares the titles as they are written
toggleFavoriteCascadeExactCase(book) ==
  IF \E i \in 1..Len(favorites) : SameTitle(favorites[i].title, book.title)
    THEN /\ journals' = MapTitles(journals, LAMBDA j :
                SelectSeq(j.bookTitles, LAMBDA t : t # book.title))
         /\ favorites' = SelectSeq(favorites, LAMBDA f : ~SameTitle(f.title, book.title))
    ELSE /\ favorites' = <<book>> \o favorites
         /\ journals' = journals

\* toggleFavorite that looks for the title as it is written
toggleFavoriteExactCase(book) ==
  IF \E i \in 1..Len(favorites) : favorites[i].title = book.title
    THEN /\ journals' = MapTitles(journals, LAMBDA j :
                SelectSeq(j.bookTitles, LAMBDA t : ~SameTitle(t, book.title)))
         /\ favorites' = SelectSeq(favorites, LAMBDA f : f.title # book.title)
    ELSE /\ favorites' = <<book>> \o favorites
         /\ journals' = journals

\* toggleFavorite(book)
toggleFavorite(book) ==
  IF \E i \in 1..Len(favorites) : SameTitle(favorites[i].title, book.title)
    THEN /\ journals' = MapTitles(journals, LAMBDA j :
                SelectSeq(j.bookTitles, LAMBDA t : ~SameTitle(t, book.title)))
         /\ favorites' = SelectSeq(favorites, LAMBDA f : ~SameTitle(f.title, book.title))
    ELSE /\ favorites' = <<book>> \o favorites
         /\ journals' = journals

\* some journal lists a title equal to t but for case
InSomeJournal(t) ==
  \E i \in 1..Len(journals) : \E k \in 1..Len(journals[i].bookTitles) :
      SameTitle(journals[i].bookTitles[k], t)

\* the heart button of a result or the trash button of a favorite card
ToggleFavorite(book) ==
  /\ NoModal
  /\ toggleFavorite(book)
  /\ storage' = SaveJournals(SaveFavorites(storage))
  /\ lastLib' = IF Len(favorites') > Len(favorites) THEN "favorite added"
                ELSE IF InSomeJournal(book.title) THEN "favorite removed from journals"
                ELSE "favorite removed"
  /\ UNCHANGED <<audioVars, searchVars, newJournalName, isCreatingJournal,
                 movingBookTitle, phase, captureVars, detailVars>>

\* the two buttons that open the New Journal modal
OpenCreateModal ==
  /\ ~isCreatingJournal
  /\ isCreatingJournal' = TRUE
  /\ movingBookTitle' = <<>>
  /\ lastLib' = "modal opened"
  /\ UNCHANGED <<audioVars, searchVars, favorites, journals, newJournalName,
                 storage, phase, captureVars, detailVars>>

\* onChange of the name box of the New Journal modal
TypeJournalName(name) ==
  /\ isCreatingJournal
  /\ newJournalName' = name
  /\ lastLib' = "name typed"
  /\ UNCHANGED <<audioVars, searchVars, favorites, journals, isCreatingJournal,
                 movingBookTitle, storage, phase, captureVars, detailVars>>

JournalIds == {journals[i].id : i \in 1..Len(journals)}

\* createJournal, from the Create button of the modal.  Opening the modal,
\* typing a name and pressing Create are separate input events, so the
\* clock has advanced since the previous journal was created.
CreateJournal ==
  /\ isCreatingJournal
  /\ ToDecimal(now) \notin JournalIds
  /\ IF Trim(newJournalName) = <<>>
       THEN UNCHANGED <<journals, newJournalName, isCreatingJournal, storage>>
       ELSE /\ journals' = Append(journals, [id |-> ToDecimal(now),
                                             name |-> newJournalName,
                                             bookTitles |-> <<>>,
                                             createdAt |-> now])
            /\ newJournalName' = <<>>
            /\ isCreatingJournal' = FALSE
            /\ storage' = SaveJournals(storage)
  /\ lastLib' = IF Trim(newJournalName) = <<>> THEN "no journal created"
                ELSE "journal created"
  /\ UNCHANGED <<audioVars, searchVars, favorites, movingBookTitle, phase, captureVars, detailVars>>

\* deleteJournal(id), confirmed is the answer to the confirm() dialog
DeleteJournal(id, confirmed) ==
  /\ NoModal
  /\ id \in JournalIds
  /\ IF confirmed
       THEN /\ journals' = SelectSeq(journals, LAMBDA j : j.id # id)
            /\ storage' = SaveJournals(storage)
       ELSE UNCHANGED <<journals, storage>>
  /\ lastLib' = IF confirmed THEN "journal deleted" ELSE "no journal deleted"
  /\ UNCHANGED <<audioVars, searchVars, favorites, newJournalName,
                 isCreatingJournal, movingBookTitle, phase, captureVars, detailVars>>

\* a folder button that picks the i-th of all titles, favorite or not
StartMovingAnyTitle(i) ==
  /\ NoModal
  /\ i \in 1..3
  /\ movingBookTitle' = << <<<<1>>, <<-1>>, <<2>>>>[i] >>
  /\ lastLib' = "title picked"
  /\ UNCHANGED <<audioVars, searchVars, favorites, journals, newJournalName,
                 isCreatingJournal, storage, phase, captureVars, detailVars>>

\* the folder button of a favorite card: setMovingBookTitle(f.title)
StartMoving(i) ==
  /\ NoModal
  /\ i \in 1..Len(favorites)
  /\ movingBookTitle' = <<favorites[i].title>>
  /\ lastLib' = "title picked"
  /\ UNCHANGED <<audioVars, searchVars, favorites, journals, newJournalName,
                 isCreatingJournal, storage, phase, captureVars, detailVars>>

\* assignBookToJournal adding the title without cleaning the other journals
assignKeepsOthers(bookTitle, journalId) ==
  MapTitles(journals, LAMBDA j :
    IF j.id = journalId
      THEN Append(SelectSeq(j.bookTitles, LAMBDA t : t # bookTitle), bookTitle)
      ELSE j.bookTitles)

\* the journals after assignBookToJournal(bookTitle, journalId); a null
\* journalId is <<>>
assignBookToJournal(bookTitle, journalId) ==
  MapTitles(journals, LAMBDA j :
    LET cleanBooks == SelectSeq(j.bookTitles, LAMBDA t : t # bookTitle)
    IN IF j.id = journalId THEN Append(cleanBooks, bookTitle) ELSE cleanBooks)

\* a button of the Organize modal: assignBookToJournal(movingBookTitle, id)
AssignBookToJournal(journalId) ==
  /\ movingBookTitle # <<>>
  /\ journalId \in JournalIds \cup {<<>>}
  /\ journals' = assignBookToJournal(movingBookTitle[1], journalId)
  /\ movingBookTitle' = <<>>
  /\ storage' = SaveJournals(storage)
  /\ lastLib' = IF \E i \in 1..Len(journals) :
                      /\ journals[i].id # journalId
                      /\ \E k \in 1..Len(journals[i].bookTitles) :
                            journals[i].bookTitles[k] = movingBookTitle[1]
                  THEN (IF journalId = <<>> THEN "title unassigned" ELSE "title moved")
                  ELSE "title assigned"
  /\ UNCHANGED <<audioVars, searchVars, favorites, newJournalName,
                 isCreatingJournal, phase, captureVars, detailVars>>

LibNext ==
  \/ Tick
  \/ \E book \in Books : ToggleFavorite(book)
  \/ OpenCreateModal
  \/ \E name \in JournalNames : TypeJournalName(name)
  \/ CreateJournal
  \/ \E id \in JournalIds, confirmed \in BOOLEAN : DeleteJournal(id, confirmed)
  \/ \E i \in 1..Cardinality(Titles) : StartMoving(i)
  \/ \E id \in JournalIds \cup {<<>>} : AssignBookToJournal(id)

SpecLib == Init /\ [][LibNext]_vars

\* searches of a curated book made while the playback controller is at
\* work, one at a time, with at most MaxPlayReq calls of startAudioPlayback
PlaySearchNext ==
  \/ StopAudio
  \/ \E hasText \in BOOLEAN :
        /\ (hasText /\ ~isAudioLockedRef /\ ~isPlayingAudio) => req[MaxPlayReq] = "idle"
        /\ HandleAudioToggle(hasText)
  \/ \E k \in Reqs, outcome \in {"audio", "none", "throw"} : SpeakSettles(k, outcome)
  \/ CtxOpSettles
  \/ \E k \in Reqs, ok \in BOOLEAN : DecodeSettles(k, ok)
  \/ \E k \in Reqs : SourceEnds(k)
  \/ \E k \in Reqs : OnEnded(k)
  \/ pending = <<>> /\ Len(history) < MaxPlaySearches /\ ClickBook(<<2>>)
  \/ \E ok \in BOOLEAN : SearchSettles(1, ok)

SpecPlaySearch == Init /\ [][PlaySearchNext]_vars

\* every mutation of the three collections: the favorites and journals
\* operations, searches one at a time, deletions from history and clearing
StoreNext ==
  \/ LibNext
  \/ Len(history) < MaxStoreSearches /\ SearchAgain
  \/ \E ok \in BOOLEAN : SearchSettles(1, ok)
  \/ \E id \in HistoryIds : DeleteHistoryEntry(id)
  \/ \E confirmed \in BOOLEAN : ClearHistory(confirmed)

SpecStore == Init /\ [][StoreNext]_vars

\* -------------------------------------------------------- searchBookDetails
\* The text of the metadata response is a sequence of JSON tokens; an object
\* is written with braces around its members, each member one token
\* Item(<<name, value>>).

LC == [t |-> "{", v |-> <<>>]
RC == [t |-> "}", v |-> <<>>]
NullTok == [t |-> "null", v |-> <<>>]

\* the JSON text of an object with the members given, in order
ObjectText(members) ==
  IF members = <<>> THEN <<LC, RC>>
  ELSE [i \in 1..(2 * Len(members) + 1) |->
          IF i = 1 THEN LC
          ELSE IF i = 2 * Len(members) + 1 THEN RC
          ELSE IF i % 2 = 0 THEN Item(members[i \div 2])
          ELSE COMMA]

\* JSON.parse of any text: ok is FALSE where it throws a SyntaxError,
\* kind says what the value is, members are those of an object
ParseJSON(toks) ==
  IF toks = <<NullTok>> THEN [ok |-> TRUE, kind |-> "null", members |-> <<>>]
  ELSE IF Len(toks) >= 2 /\ toks[1] = LB /\ toks[Len(toks)] = RB
    THEN [ok |-> Parse(toks).ok, kind |-> "array", members |-> <<>>]
  ELSE IF Len(toks) >= 2 /\ toks[1] = LC /\ toks[Len(toks)] = RC
    THEN IF Len(toks) = 2 THEN [ok |-> TRUE, kind |-> "object", members |-> <<>>]
         ELSE LET inner == ParseItems(SubSeq(toks, 2, Len(toks) - 1))
              IN [ok |-> inner.ok, kind |-> "object", members |-> inner.value]
  ELSE [ok |-> FALSE, kind |-> "none", members |-> <<>>]

\* a property that is undefined, a property that is the string s
Undefined == [def |-> FALSE, v |-> ""]
Str(s) == [def |-> TRUE, v |-> s]

\* value.name for an object or an array (the last member of that name wins)
Prop(value, name) ==
  LET at == {i \in 1..Len(value.members) : value.members[i][1] = name}
  IN IF at = {} THEN Undefined
     ELSE Str(value.members[CHOOSE i \in at : \A j \in at : j <= i][2])

\* the object of the catch block, part_000:81-89
Placeholder ==
  [ok |-> TRUE, kind |-> "object",
   members |-> <<<<"author", "Unknown Author">>, <<"summary", "No summary found.">>,
                 <<"isbn", "">>, <<"authorBio", "No biography available.">>,
                 <<"awards", "[]">>>>]

\* searchBookDetails(query, ...) from the metadata response on,
\* part_000:78-108: the destructuring of null throws a TypeError
searchBookDetails(query, text) ==
  LET parsed == ParseJSON(IF text = NoText \/ text = <<>> THEN ObjectText(<<>>) ELSE text)
      bookInfo == IF parsed.ok THEN parsed ELSE Placeholder
      isbn == Prop(bookInfo, "isbn")
  IN IF bookInfo.kind = "null"
       THEN [state |-> "threw"]
       ELSE [state |-> "returned",
             title |-> query,
             author |-> Prop(bookInfo, "author"),
             summary |-> Prop(bookInfo, "summary"),
             authorBio |-> Prop(bookInfo, "authorBio"),
             awards |-> Prop(bookInfo, "awards"),
             coverImageUrl |-> IF isbn.def /\ isbn.v # "" THEN <<"isbn", isbn.v>>
                               ELSE <<"placeholder", "">>]

\* the object of the catch block of the second definition, part_000:295-303
PlaceholderSecond ==
  [ok |-> TRUE, kind |-> "object",
   members |-> <<<<"author", "Various Contributors">>,
                 <<"summary", "Search details unavailable.">>,
                 <<"isbn", "">>, <<"authorBio", "Information pending.">>,
                 <<"awards", "[]">>>>]

\* the ISBNs written with dashes, for String.prototype.includes('-')
Dashed == {"978-0441013593"}

\* a || b on a property: b where a is undefined or the empty string
OrElse(a, b) == IF a.def /\ a.v # "" THEN a ELSE Str(b)

\* the second definition of searchBookDetails, part_000:291-321
searchBookDetailsSecond(query, text) ==
  LET parsed == ParseJSON(IF text = NoText \/ text = <<>> THEN ObjectText(<<>>) ELSE text)
      bookInfo == IF parsed.ok THEN parsed ELSE PlaceholderSecond
      isbn == Prop(bookInfo, "isbn")
  IN IF bookInfo.kind = "null"
       THEN [state |-> "threw"]
       ELSE [state |-> "returned",
             title |-> query,
             author |-> OrElse(Prop(bookInfo, "author"), "Unknown"),
             summary |-> OrElse(Prop(bookInfo, "summary"), "No summary available."),
             authorBio |-> Prop(bookInfo, "authorBio"),
             awards |-> Prop(bookInfo, "awards"),
             coverImageUrl |-> IF isbn.def /\ isbn.v # "" /\ isbn.v \notin Dashed
                                 THEN <<"isbn", isbn.v>>
                                 ELSE <<"placeholder", "">>]

\* the members a metadata object can hold
AuthorMembers == {<<>>, <<<<"author", "Frank Herbert">>>>}
SummaryMembers == {<<>>, <<<<"summary", "A desert planet.">>>>}
IsbnMembers == {<<>>, <<<<"isbn", "">>>>, <<<<"isbn", "9780441013593">>>>,
                <<<<"isbn", "978-0441013593">>>>}
RestMembers == {<<>>, <<<<"authorBio", "An author.">>, <<"awards", "[Hugo]">>>>}

\* the texts of the metadata response: none, the empty text, text that is
\* not JSON, JSON cut short, an object with a stray comma, null, an array,
\* and objects holding any of the fields
InfoTexts ==
  {NoText, <<>>, <<Junk>>, <<LC>>, <<LC, Item(<<"author", "Frank Herbert">>), COMMA, RC>>,
   <<NullTok>>, <<LB, RB>>}
  \cup {ObjectText(a \o m \o i \o r) :
          a \in AuthorMembers, m \in SummaryMembers, i \in IsbnMembers, r \in RestMembers}

\* the call returns or throws
SearchBookDetails ==
  /\ bookDetails.state = "none"
  /\ bookDetails' = IF detailsCall.definition = "first"
                      THEN searchBookDetails(detailsCall.query, detailsCall.text)
                      ELSE searchBookDetailsSecond(detailsCall.query, detailsCall.text)
  /\ UNCHANGED <<audioVars, searchVars, libVars, storage, phase, captureVars, detailsCall>>

\* a call of either definition of searchBookDetails with any query and any
\* metadata response
DetailsInit ==
  /\ AudioInit
  /\ MountedInit
  /\ CaptureInit
  /\ detailsCall \in [definition : {"first", "second"}, query : Titles,
                      text : InfoTexts]
  /\ bookDetails = [state |-> "none"]

SpecDetails == DetailsInit /\ [][SearchBookDetails]_vars

\* ---------------------------------------------------------------- hydration

\* what localStorage.getItem answers for a key that was never written (null)
Absent == <<[t |-> "absent", v |-> <<>>]>>

\* collections saved by an earlier session
SavedFavorites == <<[title |-> <<1>>], [title |-> <<2>>]>>
SavedJournals ==
  <<[id |-> <<0>>, name |-> <<1>>, bookTitles |-> <<<<1>>>>, createdAt |-> 0],
    [id |-> <<1>>, name |-> <<2>>, bookTitles |-> <<>>, createdAt |-> 1]>>
SavedHistory ==
  <<[id |-> <<1>>, query |-> <<2>>, timestamp |-> 1, result |-> BookResult(<<2>>)],
    [id |-> <<0>>, query |-> <<1>>, timestamp |-> 0, result |-> BookResult(<<1>>)]>>

\* what a key can hold at startup: nothing, the empty string, text that is
\* not JSON, JSON cut short, JSON with a stray comma, and saved lists of
\* zero, one and two elements
StoredTexts(items) ==
  {Absent, <<>>, <<Junk>>, <<LB>>, <<LB, Item(items[1]), COMMA, RB>>,
   Stringify(<<>>), Stringify(<<items[1]>>), Stringify(items)}

\* the useState initializers of App.tsx:122-135:
\* saved ? JSON.parse(saved) : []; ok is FALSE where JSON.parse throws
Hydrate(saved) ==
  IF saved # Absent /\ saved # <<>> THEN Parse(saved)
  ELSE [ok |-> TRUE, value |-> <<>>]

\* the first render of App and the persistence effects that follow it; an
\* initializer that throws ends the render and nothing is mounted
Mount ==
  /\ phase = "boot"
  /\ LET f == Hydrate(storage.favorites)
         j == Hydrate(storage.journals)
         h == Hydrate(storage.history)
     IN IF f.ok /\ j.ok /\ h.ok
          THEN /\ favorites' = f.value
               /\ journals' = j.value
               /\ history' = h.value
               /\ storage' = [favorites |-> Stringify(f.value),
                              journals |-> Stringify(j.value),
                              history |-> Stringify(h.value)]
               /\ phase' = "mounted"
          ELSE /\ phase' = "crashed"
               /\ UNCHANGED <<favorites, journals, history, storage>>
  /\ UNCHANGED <<audioVars, searchQuery, isSearching, searchResult, pending, now,
                 lastAlert, searchFailed, lastIssued, newJournalName,
                 isCreatingJournal, movingBookTitle,
                 lastLib, captureVars, detailVars>>

\* the page is opened on any content of the three keys
HydrateInit ==
  /\ AudioInit
  /\ CaptureInit
  /\ DetailsIdle
  /\ searchQuery = <<>>
  /\ isSearching = FALSE
  /\ searchResult = <<>>
  /\ pending = <<>>
  /\ history = <<>>
  /\ now = MaxNow
  /\ lastAlert = ""
  /\ searchFailed = FALSE
  /\ lastIssued = <<>>
  /\ favorites = <<>>
  /\ journals = <<>>
  /\ newJournalName = <<>>
  /\ isCreatingJournal = FALSE
  /\ movingBookTitle = <<>>
  /\ lastLib = "none"
  /\ storage \in [favorites : StoredTexts(SavedFavorites),
                  journals : StoredTexts(SavedJournals),
                  history : StoredTexts(SavedHistory)]
  /\ phase = "boot"

SpecHydrate == HydrateInit /\ [][Mount]_vars

\* ------------------------------------------------------------ voice capture

\* the recorders created so far
Created == Cardinality({k \in Recs : rec[k] # "none"})

\* startRecording up to await getUserMedia
startRecording == mic' = mic + 1

\* the record button: startRecording, or mediaRecorderRef.current?.stop()
\* when isRecording; stop() of a recorder that is not recording does nothing
PressRecord ==
  /\ IF isRecording
       THEN /\ rec' = IF mediaRecorderRef # 0 /\ rec[mediaRecorderRef] = "recording"
                        THEN [rec EXCEPT ![mediaRecorderRef] = "stopping"]
                        ELSE rec
            /\ UNCHANGED mic
       ELSE /\ mic + Created < MaxRec
            /\ startRecording
            /\ UNCHANGED rec
  /\ UNCHANGED <<audioVars, searchVars, libVars, storage, phase, detailVars, isRecording,
                 isTranscribing, mediaRecorderRef, audioChunksRef, blob, transcribed>>

\* getUserMedia settles and startRecording resumes: a MediaRecorder is
\* created and started, or the catch shows the alert
MicSettles(granted) ==
  /\ mic > 0
  /\ mic' = mic - 1
  /\ IF granted
       THEN /\ mediaRecorderRef' = Created + 1
            /\ audioChunksRef' = 0
            /\ rec' = [rec EXCEPT ![Created + 1] = "recording"]
            /\ isRecording' = TRUE
            /\ lastAlert' = ""
       ELSE /\ lastAlert' = "Mic permission error."
            /\ UNCHANGED <<mediaRecorderRef, audioChunksRef, rec, isRecording>>
  /\ UNCHANGED <<audioVars, searchQuery, isSearching, searchResult, pending, history,
                 now, searchFailed, lastIssued, libVars, storage, phase, detailVars,
                 isTranscribing, blob, transcribed>>

\* ondataavailable of a stopped recorder: the data is kept if it is not empty
DataAvailable(k, size) ==
  /\ rec[k] = "stopping"
  /\ rec' = [rec EXCEPT ![k] = "flushed"]
  /\ audioChunksRef' = IF size > 0 THEN audioChunksRef + 1 ELSE audioChunksRef
  /\ UNCHANGED <<audioVars, searchVars, libVars, storage, phase, detailVars, isRecording,
                 isTranscribing, mic, mediaRecorderRef, blob, transcribed>>

\* onstop: the Blob is built from the chunks and handed to the FileReader
OnStop(k) ==
  /\ rec[k] = "flushed"
  /\ rec' = [rec EXCEPT ![k] = "reading"]
  /\ blob' = [blob EXCEPT ![k] = audioChunksRef]
  /\ UNCHANGED <<audioVars, searchVars, libVars, storage, phase, detailVars, isRecording,
                 isTranscribing, mic, mediaRecorderRef, audioChunksRef, transcribed>>

\* reader.onloadend up to await transcribeAudio
ReaderLoads(k) ==
  /\ rec[k] = "reading"
  /\ rec' = [rec EXCEPT ![k] = "transcribing"]
  /\ isTranscribing' = TRUE
  /\ UNCHANGED <<audioVars, searchVars, libVars, storage, phase, detailVars, isRecording, mic,
                 mediaRecorderRef, audioChunksRef, blob, transcribed>>

\* what the model can answer: "", " ", "d", " e "
ResponseTexts == {<<>>, <<0>>, <<1>>, <<0, 2, 0>>}

\* transcribeAudio returning the response as it is
transcribeAudioNoTrim(hasText, text) == IF hasText THEN text ELSE <<>>

\* the return of transcribeAudio: response.text?.trim() || ""
transcribeAudio(hasText, text) ==
  IF hasText /\ Trim(text) # <<>> THEN Trim(text) ELSE <<>>

\* the awaited transcribeAudio call settles and onloadend resumes; outcome
\* is "text" (a response with text), "notext" (a response without) or "throw"
TranscribeSettles(k, outcome, text) ==
  /\ rec[k] = "transcribing"
  /\ rec' = [rec EXCEPT ![k] = "done"]
  /\ isTranscribing' = FALSE
  /\ IF outcome = "throw"
       THEN /\ transcribed' = [transcribed EXCEPT
                                 ![k] = [state |-> "threw", value |-> <<>>]]
            /\ UNCHANGED <<audioVars, searchQuery, isSearching, searchResult, pending,
                           lastIssued>>
       ELSE LET transcription == transcribeAudio(outcome = "text", text) IN
            /\ transcribed' = [transcribed EXCEPT
                                 ![k] = [state |-> "returned", value |-> transcription]]
            /\ IF transcription # <<>>
                 THEN /\ searchQuery' = transcription
                      /\ handleSearch(transcription)
                 ELSE UNCHANGED <<audioVars, searchQuery, isSearching, searchResult,
                                  pending, lastIssued>>
  /\ UNCHANGED <<history, now, lastAlert, searchFailed, libVars, storage, phase,
                 detailVars, isRecording, mic, mediaRecorderRef, audioChunksRef, blob>>

\* voice searches: recordings started and stopped with the record button
\* and the searches they trigger
CaptureNext ==
  \/ PressRecord
  \/ \E granted \in BOOLEAN : MicSettles(granted)
  \/ \E k \in Recs, size \in 0..1 : DataAvailable(k, size)
  \/ \E k \in Recs : OnStop(k)
  \/ \E k \in Recs : ReaderLoads(k)
  \/ \E k \in Recs, outcome \in {"text", "notext", "throw"}, text \in ResponseTexts :
        TranscribeSettles(k, outcome, text)
  \/ \E i \in 1..MaxPending, ok \in BOOLEAN : SearchSettles(i, ok)

SpecCapture == Init /\ [][CaptureNext]_vars

\* ------------------------------------------------------------------ claims

PlayingSources == {k \in Reqs : src[k] = "playing"}

\* what a handler can change of the playback controller, the bookkeeping of
\* which handler ran last left out
playbackCore == <<isAudioLockedRef, isPlayingAudio, isAudioPaused, isAudioLoading,
                  activeAudioSourceRef, ctxState, ctxQ, req, src>>

\* C1: at most one audio source started by the controller is playing at any
\* time, for every interleaving of toggle, stop, request settlements and
\* onended callbacks.
C1_AtMostOneSourcePlaying == Cardinality(PlayingSources) <= 1

\* C2: while the first text-to-speech request is awaited and stop() has not
\* been called, a toggle changes nothing (no second request is issued), and
\* when the request settles with audio the only source playing is its own.
C2_SecondToggleIsNoOp ==
  [][(~stopCalled /\ Pending(1)) =>
        /\ lastOp' = "handleAudioToggle" => UNCHANGED playbackCore
        /\ \A k \in Reqs \ {1} : req'[k] = "idle"
        /\ (req'[1] = "done" /\ isAudioLockedRef') => PlayingSources' = {1}
        /\ PlayingSources' \subseteq {1}]_vars

\* C2 witness: a toggle ran while the first request was awaited and the
\* request then settled with audio and started its source.
C2_Witness ==
  /\ ~stopCalled
  /\ lockRejected
  /\ lastOp = "decodeSettles"
  /\ src[1] = "playing"
  /\ \A k \in Reqs \ {1} : req[k] = "idle"

\* C3: after stop() the lock is released, the three flags are false and no
\* source is referenced; a second stop() right after changes none of these
\* (nor any source).
C3_StopIdempotent ==
  [][lastOp' = "stopAudio" =>
        /\ ~isAudioLockedRef' /\ ~isPlayingAudio' /\ ~isAudioPaused' /\ ~isAudioLoading'
        /\ activeAudioSourceRef' = 0
        /\ PlayingSources' \cap {activeAudioSourceRef} = {}
        /\ lastOp = "stopAudio" =>
              UNCHANGED <<isAudioLockedRef, isPlayingAudio, isAudioPaused,
                          isAudioLoading, activeAudioSourceRef, src, req, ctxState>>]_vars

\* C3 witness: two stop() calls in a row, the first made while Paused.
C3_Witness == stopRun = 2 /\ stopFrom = "Paused"

\* C4: starting from an empty history, history never holds more than 50
\* entries, whatever searches succeed or fail and whatever is deleted or
\* cleared.
C4_HistoryAtMost50 == Len(history) <= 50

\* C4 witness: a search succeeded while history was full, and history is
\* still full.
C4_Witness ==
  /\ Len(history) = 50
  /\ searchResult # <<>>
  /\ history[1].timestamp = 1 /\ history[50].timestamp = 1

\* C5: a successful search puts its entry at the head, followed by the
\* previous entries in their order, the last one dropped when there were 50;
\* timestamps never increase from head to tail; after the 51 searches of
\* the scenario the first query is absent and the other 50 are listed newest
\* first.
C5_PrependAndTruncate ==
  /\ [][Len(pending') < Len(pending) =>
          /\ Len(history') = Min(Len(history) + 1, 50)
          /\ history'[1].query = pending[1].query
          /\ history'[1].timestamp = now
          /\ \A i \in 2..Len(history') : history'[i] = history[i - 1]]_vars
  /\ [](\A i \in 1..Len(history) - 1 :
            history[i].timestamp >= history[i + 1].timestamp)
  /\ []((Issued = 51 /\ pending = <<>>) =>
            /\ Len(history) = 50
            /\ \A i \in 1..50 : history[i].query = <<52 - i>>)

\* C5 witness: the 51st search of the scenario has settled, the clock
\* having advanced on the way.
C5_Witness ==
  /\ Issued = 51 /\ pending = <<>>
  /\ history[1].timestamp = 1 /\ history[50].timestamp = 0

\* C9: every entry of history has an id that no other entry has, and a
\* timestamp not later than the current time.
C9_FreshIds ==
  /\ \A i, j \in 1..Len(history) : i # j => history[i].id # history[j].id
  /\ \A i \in 1..Len(history) : history[i].timestamp <= now

\* how many times t occurs in the sequence s
Count(s, t) == Cardinality({i \in 1..Len(s) : s[i] = t})

\* the journals js with the title t taken out of every bookTitles
WithoutTitle(js, t) ==
  [i \in 1..Len(js) |-> [js[i] EXCEPT !.bookTitles =
      SelectSeq(js[i].bookTitles, LAMBDA x : x # t)]]

RemovedTitles ==
  {favorites[i].title : i \in 1..Len(favorites)}
     \ {favorites'[i].title : i \in 1..Len(favorites')}

\* C7: after toggleFavorite removes a favorite, no journal lists its title
\* in any case, and the journals and their other titles are unchanged.
C7_RemovalCascades ==
  [][Len(favorites') < Len(favorites) =>
        \A t \in RemovedTitles :
          /\ \A i \in 1..Len(journals') : \A k \in 1..Len(journals'[i].bookTitles) :
                ToLowerCase(journals'[i].bookTitles[k]) # ToLowerCase(t)
          /\ Len(journals') = Len(journals)
          /\ \A i \in 1..Len(journals') :
                /\ journals'[i].id = journals[i].id
                /\ journals'[i].name = journals[i].name
                /\ journals'[i].createdAt = journals[i].createdAt
                /\ journals'[i].bookTitles =
                     SelectSeq(journals[i].bookTitles,
                               LAMBDA x : ToLowerCase(x) # ToLowerCase(t))]_vars

\* C7 witness: a favorite listed in a journal was removed, another title
\* stays listed.
C7_Witness ==
  /\ lastLib = "favorite removed from journals"
  /\ \E i \in 1..Len(journals) : journals[i].bookTitles # <<>>

\* a stored text that was never written or is not JSON
MissingOrCorrupt(saved) == saved = Absent \/ ~Parse(saved).ok

\* C8: hydrating favorites, journals or history at startup from a key that
\* was never written or that holds a non-JSON value yields the empty list,
\* and startup does not fail.
C8_HydrationNeverFails ==
  [][phase = "boot" /\ phase' # "boot" =>
       /\ phase' = "mounted"
       /\ MissingOrCorrupt(storage.favorites) => favorites' = <<>>
       /\ MissingOrCorrupt(storage.journals) => journals' = <<>>
       /\ MissingOrCorrupt(storage.history) => history' = <<>>]_vars

\* the non-empty strings transcribeAudio has returned
Recognized ==
  {transcribed[k].value : k \in {r \in Recs : transcribed[r].state = "returned"}}
    \ {<<>>}

\* C10: when the transcription call of a stopped recording settles, a search
\* of the recognized text is triggered if and only if the call returned a
\* non-empty string: otherwise no search is awaited and history is left as
\* it is; every search awaited and every history entry is of a recognized
\* text.
C10_SearchIffTranscribed ==
  /\ [][\A k \in Recs :
          rec[k] = "transcribing" /\ rec'[k] = "done" =>
            IF transcribed'[k].state = "returned" /\ transcribed'[k].value # <<>>
              THEN /\ pending' = Append(pending, [query |-> transcribed'[k].value])
                   /\ searchQuery' = transcribed'[k].value
                   /\ isSearching'
              ELSE UNCHANGED <<searchVars, storage>>]_vars
  /\ [](/\ \A i \in 1..Len(pending) : pending[i].query \in Recognized
        /\ \A i \in 1..Len(history) : history[i].query \in Recognized
        /\ Len(pending) + Len(history) <=
             Cardinality({k \in Recs : transcribed[k].state = "returned"
                                        /\ transcribed[k].value # <<>>}))

\* C10 witness: of two stopped recordings, one was recognized as "e" and its
\* search is in history; the other had zero chunks, the transcription
\* returned "" and no search came of it.
C10_Witness ==
  \E a, b \in Recs :
    /\ rec[a] = "done" /\ transcribed[a] = [state |-> "returned", value |-> <<2>>]
    /\ rec[b] = "done" /\ transcribed[b] = [state |-> "returned", value |-> <<>>]
    /\ blob[b] = 0
    /\ pending = <<>>
    /\ Len(history) = 1 /\ history[1].query = <<2>>

\* the startAudioPlayback calls whose text-to-speech request is awaited
PendingRequests == {k \in Reqs : req[k] = "speak"}

\* C11: at any time at most one text-to-speech request issued by the
\* controller is awaiting its response, for every sequence of toggle(text)
\* and stop() calls, request settlements and onended callbacks.
C11_AtMostOneRequestPending == Cardinality(PendingRequests) <= 1

\* the controller plays and nothing is on its way to change that
SteadyPlaying ==
  /\ PlaybackState = "Playing"
  /\ activeAudioSourceRef # 0
  /\ src[activeAudioSourceRef] = "playing"
  /\ ctxState = "running"
  /\ ctxQ = <<>>

\* the controller is paused and nothing is on its way to change that
SteadyPaused ==
  /\ PlaybackState = "Paused"
  /\ activeAudioSourceRef # 0
  /\ src[activeAudioSourceRef] = "playing"
  /\ ctxState = "suspended"
  /\ ctxQ = <<>>

\* C12: while a playback is active, toggle() pauses it if it is not paused
\* and resumes it if it is paused: from Playing a toggle asks the context to
\* suspend and from Paused to resume, and once that settles the controller
\* is Paused, respectively Playing.
C12_ToggleAlternates ==
  [][/\ (lastOp' = "handleAudioToggle" /\ SteadyPlaying) =>
          ctxQ' = <<[kind |-> "suspend", cont |-> "pauseAudio", k |-> 0]>>
     /\ (lastOp' = "handleAudioToggle" /\ SteadyPaused) =>
          ctxQ' = <<[kind |-> "resume", cont |-> "resumeAudio", k |-> 0]>>
     /\ (lastOp' = "ctxOpSettles" /\ ctxQ # <<>> /\ Head(ctxQ).cont = "pauseAudio"
           /\ PlaybackState = "Playing") => PlaybackState' = "Paused"
     /\ (lastOp' = "ctxOpSettles" /\ ctxQ # <<>> /\ Head(ctxQ).cont = "resumeAudio"
           /\ PlaybackState = "Paused") => PlaybackState' = "Playing"]_vars

\* the places <<journal, position>> where a title equal to t but for case
\* is listed
Listings(t) ==
  {p \in (1..Len(journals)) \X (1..Cardinality(Titles) + 1) :
      /\ p[2] <= Len(journals[p[1]].bookTitles)
      /\ SameTitle(journals[p[1]].bookTitles[p[2]], t)}

\* C13: starting from empty favorites and journals, whatever favorites are
\* toggled, journals created and deleted and favorite titles assigned, each
\* book title, compared case-insensitively, is listed in at most one journal
\* and at most once in it.
C13_TitleInAtMostOneJournal == \A t \in Titles : Cardinality(Listings(t)) <= 1

\* C13 witness: two journals, "e" was assigned to the first and then "D" to
\* the second.
C13_Witness ==
  /\ lastLib = "title assigned"
  /\ Len(journals) = 2
  /\ journals[1].bookTitles = <<<<2>>>>
  /\ journals[2].bookTitles = <<<<-1>>>>

\* C14: starting from empty favorites, after any sequence of toggleFavorite
\* calls no two favorites have titles that are equal when compared
\* case-insensitively.
C14_FavoritesUnique ==
  \A i, j \in 1..Len(favorites) :
     i # j => ~SameTitle(favorites[i].title, favorites[j].title)

\* C14 witness: "D" was added to the favorites, which held "e".
C14_Witness ==
  /\ lastLib = "favorite added"
  /\ Len(favorites) = 2
  /\ favorites[1].title = <<-1>>
  /\ favorites[2].title = <<2>>

\* the recorders that hold an open microphone stream: started, and their
\* onstop handler (which stops the tracks) has not run
ActiveSessions == {k \in Recs : rec[k] \in {"recording", "stopping", "flushed"}}

\* C15: the capture controller follows Idle -> Recording -> Idle: once the
\* onstop handler of every recorder started has run (and no permission
\* request is awaited), isRecording is false, so that the next press of the
\* record button calls startRecording.
C15_IdleAfterStop ==
  (Created > 0 /\ ActiveSessions = {} /\ mic = 0) => ~isRecording

\* C16: at most one recording session (a MediaRecorder with an open
\* microphone stream) is active at any time, for every sequence of presses
\* of the record button, those made while a permission request is awaited
\* included.
C16_AtMostOneSession == Cardinality(ActiveSessions) <= 1

\* C17: a search with a non-blank query stops any playback in progress:
\* right after handleSearch has started (the search is awaited), the source
\* that was referenced is stopped and no source is referenced, the lock is
\* released and isPlayingAudio, isAudioPaused and isAudioLoading are false,
\* whatever the playback state was.
C17_SearchStopsPlayback ==
  [][Len(pending') = Len(pending) + 1 =>
        /\ activeAudioSourceRef' = 0
        /\ activeAudioSourceRef # 0 => src'[activeAudioSourceRef] # "playing"
        /\ ~isAudioLockedRef'
        /\ ~isPlayingAudio' /\ ~isAudioPaused' /\ ~isAudioLoading']_vars

\* C17 witness: handleSearch has just run while the controller was Playing;
\* the source is stopped and nothing plays.
C17_Witness ==
  /\ lastOp = "handleSearch"
  /\ stopFrom = "Playing"
  /\ pending # <<>>
  /\ \E k \in Reqs : src[k] = "ended"
  /\ PlayingSources = {}

\* C18: if the text-to-speech request returns no audio, or it or the
\* decoding throws, the lock is released, isAudioLoading is false and no
\* source is created or referenced; a controller that was Loading is Idle,
\* where toggle(text) reaches startAudioPlayback again.
C18_FailureReturnsToIdle ==
  [][lastOp' = "startFailed" =>
        /\ ~isAudioLockedRef'
        /\ ~isAudioLoading'
        /\ src' = src
        /\ activeAudioSourceRef' = activeAudioSourceRef
        /\ PlaybackState = "Loading" =>
             /\ PlaybackState' = "Idle"
             /\ ~isPlayingAudio']_vars

\* C18 witness: the first request failed, no stop() was called, and a later
\* toggle(text) has started the second request.
C18_Witness ==
  /\ ~stopCalled
  /\ req[1] = "done" /\ src[1] = "none"
  /\ req[2] = "speak"
  /\ lastOp = "handleAudioToggle"
  /\ PlaybackState = "Loading"

\* C19: after every mutation of favorites, journals or history, once its
\* effects have run, the value stored under the key of each collection is
\* the serialization of the whole collection in memory (and parses back to
\* it).
C19_StorageMirrorsCollections ==
  /\ storage.favorites = Stringify(favorites)
  /\ storage.journals = Stringify(journals)
  /\ storage.history = Stringify(history)
  /\ Parse(storage.favorites) = [ok |-> TRUE, value |-> favorites]
  /\ Parse(storage.journals) = [ok |-> TRUE, value |-> journals]
  /\ Parse(storage.history) = [ok |-> TRUE, value |-> history]

\* C19 witness: two favorites, a journal that lists one of them and a
\* history entry, all three stored.
C19_Witness ==
  /\ Len(favorites) = 2
  /\ Len(journals) = 1 /\ Len(journals[1].bookTitles) = 1
  /\ Len(history) = 1
  /\ Len(storage.favorites) = 5
  /\ Len(storage.journals) = 3
  /\ Len(storage.history) = 3

\* the recorders stopped whose blob is being encoded or transcribed
InTranscription == {k \in Recs : rec[k] \in {"reading", "transcribing"}}

\* C20: the transcribing indicator covers the whole span of encoding and
\* transcription: isTranscribing is true from the moment onstop has run
\* until the transcription call has settled, and false otherwise.
C20_IndicatorCoversSpan == isTranscribing <=> InTranscription # {}

\* the metadata response is not valid JSON or is not an object that holds
\* the fields: no text, a null value, an array, missing author or summary
BadMetadata(text) ==
  \/ text = NoText
  \/ ~ParseJSON(text).ok
  \/ ParseJSON(text).kind # "object"
  \/ ~Prop(ParseJSON(text), "author").def
  \/ ~Prop(ParseJSON(text), "summary").def

\* C21: when the text of the metadata response is not valid JSON, or is
\* JSON that does not match the object schema (empty text, null, missing
\* fields), searchBookDetails returns a BookResult whose author and summary
\* are the placeholder strings: it does not throw and no field is undefined.
C21_SafeDefaults ==
  (bookDetails.state # "none" /\ BadMetadata(detailsCall.text)) =>
     /\ bookDetails.state = "returned"
     /\ bookDetails.author \in
          {Str("Unknown Author"), Str("Various Contributors"), Str("Unknown")}
     /\ bookDetails.summary \in
          {Str("No summary found."), Str("Search details unavailable."),
           Str("No summary available.")}

\* history after an insertion: one entry in front, the oldest entry gone
\* if there were 50
Inserted ==
  /\ history' # <<>>
  /\ Tail(history') = Slice0(history, HistoryCap - 1)

\* C22 as stated: history is an append-only log, an entry leaves it only by
\* eviction as the oldest entry beyond the 50-entry cap.
C22_AppendOnly == [][history' = history \/ Inserted]_vars

\* C22 amended: an entry leaves history only by eviction as the oldest
\* entry beyond the cap, by deleteHistoryEntry (which removes every entry
\* that has the id given) or by clearHistory (which removes them all); a
\* search removes no entry among the 49 most recent.
C22_RemovedOnlyByEvictionDeleteClear ==
  [][\/ history' = history
     \/ Inserted
     \/ \E id \in HistoryIds : history' = SelectSeq(history, LAMBDA h : h.id # id)
     \/ history' = <<>>]_vars

\* C22 witness: a search succeeded (its result is displayed) and history
\* holds no entry: the entry was deleted or history cleared.
C22_Witness ==
  /\ searchResult # <<>>
  /\ pending = <<>>
  /\ history = <<>>

\* C23: when the source the controller references ends by itself (stopAudio
\* did not stop it, or it would not be referenced any more) and its onended
\* callback runs, the controller is Idle afterwards: the lock is released,
\* isPlayingAudio and isAudioPaused are false and no source is referenced,
\* which is the state where handleAudioToggle(text) starts a playback.
C23_NaturalEndReturnsToIdle ==
  [][\A k \in Reqs :
       (activeAudioSourceRef = k /\ src[k] = "ended" /\ src'[k] = "finished") =>
          /\ ~isAudioLockedRef'
          /\ ~isPlayingAudio'
          /\ ~isAudioPaused'
          /\ activeAudioSourceRef' = 0
          /\ PlaybackState' = "Idle"]_vars

\* C23 witness: stopAudio never ran, the source of the first call played to
\* its end and its onended callback has just left the controller Idle.
C23_Witness ==
  /\ ~stopCalled
  /\ lastOp = "onended"
  /\ src[1] = "finished"
  /\ PlaybackState = "Idle"
  /\ ~isAudioLockedRef

\* C24: if stopAudio ran while call k was pending and handleAudioToggle was
\* not called since, then when decodeAudioData of call k resolves no source
\* is created or started, and the controller is Idle with the lock released.
C24_StoppedRequestStartsNothing ==
  [][\A k \in Reqs :
       (/\ afterStop[k] = "stopped"
        /\ req[k] = "decode"
        /\ req'[k] = "done"
        /\ lastOp' = "decodeSettles") =>
          /\ src' = src
          /\ src'[k] = "none"
          /\ activeAudioSourceRef' = 0
          /\ PlaybackState' = "Idle"
          /\ ~isAudioLockedRef']_vars

\* C24 witness: the only call issued was pending when stopAudio ran, no
\* toggle followed, and its audio has just been decoded: no source exists.
C24_Witness ==
  /\ afterStop[1] = "stopped"
  /\ req[1] = "done"
  /\ req[2] = "idle"
  /\ lastOp = "decodeSettles"
  /\ src[1] = "none"
  /\ PlaybackState = "Idle"

\* ------------------------------------ playback controller of part_001
\* src/unnamed/part_001 holds an earlier App with the same state and refs:
\* its handlers act on the variables of the controller above.

\* part_001:124-133, stopAudio: the context is left as it is
stopAudioPart001 ==
  /\ src' = StopSource(src, activeAudioSourceRef)
  /\ activeAudioSourceRef' = 0
  /\ isPlayingAudio' = FALSE
  /\ isAudioPaused' = FALSE
  /\ isAudioLoading' = FALSE
  /\ isAudioLockedRef' = FALSE

\* part_001:242, the home button
StopAudioPart001 ==
  /\ stopAudioPart001
  /\ lastOp' = "stopAudio"
  /\ stopRun' = IF stopRun < 2 THEN stopRun + 1 ELSE 2
  /\ stopFrom' = IF stopRun = 0 THEN PlaybackState ELSE stopFrom
  /\ stopCalled' = TRUE
  /\ afterStop' = MarkStopped
  /\ UNCHANGED <<lockRejected, ctxState, ctxQ, req>>
  /\ UNCHANGED <<searchVars, libVars, storage, phase, captureVars, detailVars>>

\* part_001:135-148, handleAudioToggle(text): suspend()/resume() are not
\* awaited and the paused flag is set at once
HandleAudioTogglePart001(hasText) ==
  /\ lastOp' = "handleAudioToggle"
  /\ stopRun' = 0
  /\ lockRejected' = (lockRejected \/ isAudioLockedRef)
  /\ afterStop' = MarkToggled
  /\ UNCHANGED <<stopFrom, stopCalled>>
  /\ IF isAudioLockedRef
       THEN UNCHANGED <<isAudioLockedRef, isAudioLoading, isAudioPaused, req, ctxQ>>
       ELSE IF isPlayingAudio
         THEN /\ Len(ctxQ) < MaxCtxOps
              /\ ctxQ' = Append(ctxQ, [kind |-> IF isAudioPaused THEN "resume"
                                                                 ELSE "suspend",
                                       cont |-> "none", k |-> 0])
              /\ isAudioPaused' = ~isAudioPaused
              /\ UNCHANGED <<isAudioLockedRef, isAudioLoading, req>>
         ELSE IF hasText
           THEN /\ FreeReq # {}
                /\ NextReq <= MaxPart001Req
                /\ startAudioPlayback(NextReq)
                /\ UNCHANGED <<isAudioPaused, ctxQ>>
           ELSE UNCHANGED <<isAudioLockedRef, isAudioLoading, isAudioPaused, req, ctxQ>>
  /\ UNCHANGED <<isPlayingAudio, activeAudioSourceRef, ctxState, src>>
  /\ UNCHANGED <<searchVars, libVars, storage, phase, captureVars, detailVars>>

\* part_001:154-155 and 175-178, speakText settles: with audio the call
\* goes on; with undefined the if has no else branch and the call returns;
\* a rejection runs the catch block
SpeakSettlesPart001(k, outcome) ==
  /\ req[k] = "speak"
  /\ lastOp' = IF outcome = "audio" THEN "speakSettles"
               ELSE IF outcome = "none" THEN "noAudio" ELSE "startFailed"
  /\ stopRun' = 0
  /\ UNCHANGED <<stopFrom, stopCalled, lockRejected>>
  /\ afterStop' = IF outcome = "audio" THEN afterStop ELSE MarkReturned(k)
  /\ IF outcome = "audio"
       THEN /\ \E created \in (IF ctxState = "none" THEN {"running", "suspended"}
                                                      ELSE {ctxState}) :
                 /\ ctxState' = created
                 /\ IF created = "suspended"
                      THEN /\ Len(ctxQ) < MaxCtxOps
                           /\ ctxQ' = Append(ctxQ, [kind |-> "resume", cont |-> "start", k |-> k])
                           /\ req' = [req EXCEPT ![k] = "resume"]
                      ELSE /\ ctxQ' = ctxQ
                           /\ req' = [req EXCEPT ![k] = "decode"]
            /\ UNCHANGED <<isAudioLoading, isAudioLockedRef>>
       ELSE IF outcome = "none"
         THEN /\ req' = [req EXCEPT ![k] = "done"]
              /\ UNCHANGED <<isAudioLoading, isAudioLockedRef, ctxState, ctxQ>>
         ELSE /\ startFailed(k)
              /\ UNCHANGED <<ctxState, ctxQ>>
  /\ UNCHANGED <<isPlayingAudio, isAudioPaused, activeAudioSourceRef, src>>
  /\ UNCHANGED <<searchVars, libVars, storage, phase, captureVars, detailVars>>

\* part_001:162-174, decodeAudioData settles: the source is created and
\* started without a look at the lock
DecodeSettlesPart001(k, ok) ==
  /\ req[k] = "decode"
  /\ lastOp' = IF ok THEN "decodeSettles" ELSE "startFailed"
  /\ stopRun' = 0
  /\ UNCHANGED <<stopFrom, stopCalled, lockRejected>>
  /\ afterStop' = MarkReturned(k)
  /\ IF ~ok
       THEN /\ startFailed(k)
            /\ UNCHANGED <<isPlayingAudio, activeAudioSourceRef, src>>
       ELSE /\ activeAudioSourceRef' = k
            /\ isAudioLoading' = FALSE
            /\ isPlayingAudio' = TRUE
            /\ src' = [src EXCEPT ![k] = "playing"]
            /\ req' = [req EXCEPT ![k] = "done"]
            /\ UNCHANGED isAudioLockedRef
  /\ UNCHANGED <<isAudioPaused, ctxState, ctxQ>>
  /\ UNCHANGED <<searchVars, libVars, storage, phase, captureVars, detailVars>>

\* part_001:166-170, source.onended of call k
OnEndedPart001(k) ==
  /\ src[k] = "ended"
  /\ isPlayingAudio' = FALSE
  /\ activeAudioSourceRef' = 0
  /\ isAudioLockedRef' = FALSE
  /\ src' = [src EXCEPT ![k] = "finished"]
  /\ lastOp' = "onended"
  /\ stopRun' = 0
  /\ UNCHANGED <<stopFrom, stopCalled, lockRejected, afterStop>>
  /\ UNCHANGED <<isAudioPaused, isAudioLoading, ctxState, ctxQ, req>>
  /\ UNCHANGED <<searchVars, libVars, storage, phase, captureVars, detailVars>>

Part001Next ==
  \/ StopAudioPart001
  \/ \E hasText \in BOOLEAN : HandleAudioTogglePart001(hasText)
  \/ \E k \in Reqs, outcome \in {"audio", "none", "rejected"} :
       SpeakSettlesPart001(k, outcome)
  \/ CtxOpSettles
  \/ \E k \in Reqs, ok \in BOOLEAN : DecodeSettlesPart001(k, ok)
  \/ \E k \in Reqs : SourceEnds(k)
  \/ \E k \in Reqs : OnEndedPart001(k)

SpecPart001 == Init /\ [][Part001Next]_vars

\* C25: in the controller of part_001, after speakText has returned no
\* audio the controller is Idle: the lock is released and isAudioLoading
\* is false, so that the next handleAudioToggle(text) is not ignored.
C25_NoAudioReturnsToIdle ==
  lastOp = "noAudio" => (~isAudioLockedRef /\ ~isAudioLoading)

\* C26: when the search call fails, the user is alerted, history and its
\* stored copy are left as they were, the result display is not filled and
\* isSearching is false.
C26_FailedSearchAlertsAndLeavesHistory ==
  [][(Len(pending') < Len(pending) /\ searchFailed') =>
        /\ lastAlert' = "Failed to find book details."
        /\ history' = history
        /\ storage' = storage
        /\ searchResult' = searchResult
        /\ ~isSearching']_vars

\* C26 witness: a search succeeded, the next one has just failed: the
\* alert was shown and history holds the one entry of the first search.
C26_Witness ==
  /\ searchFailed
  /\ pending = <<>>
  /\ Len(history) = 1
  /\ lastAlert = "Failed to find book details."
  /\ ~isSearching

\* the titles of the current favorites
FavoriteTitles == {favorites[i].title : i \in 1..Len(favorites)}

\* C27: from empty favorites and journals, through toggleFavorite,
\* createJournal, deleteJournal and assignBookToJournal of a title picked
\* on a favorite card, every title in the bookTitles of any journal is the
\* title of a current favorite.
C27_JournalTitlesAreFavorites ==
  \A i \in 1..Len(journals) : \A k \in 1..Len(journals[i].bookTitles) :
     journals[i].bookTitles[k] \in FavoriteTitles

\* C27 witness: a favorite listed in a journal has just been removed, and a
\* journal still lists another title.
C27_Witness ==
  /\ lastLib = "favorite removed from journals"
  /\ favorites # <<>>
  /\ \E i \in 1..Len(journals) : journals[i].bookTitles # <<>>

\* C28: whenever isAudioLoading is true some startAudioPlayback call is
\* still pending: the loading flag never outlives its request.
C28_LoadingHasPendingRequest ==
  isAudioLoading => \E k \in Reqs : Pending(k)

\* C29: if a source started by the controller is still playing, or a call
\* of startAudioPlayback that no stopAudio followed is still pending, then
\* the lock is held.
C29_LockCoversPlaybackAndRequests ==
  (\/ \E k \in Reqs : src[k] = "playing"
   \/ \E k \in Reqs : Pending(k) /\ afterStop[k] = "none") => isAudioLockedRef

\* C30: when the last of two overlapping searches settles with a result
\* (the other one has put its result on display since the last search was
\* issued), the result displayed is that of the query issued last.
C30_LatestQueryDisplayed ==
  [][(/\ Len(pending) = 1
      /\ pending' = <<>>
      /\ ~searchFailed'
      /\ searchResult # <<>>) =>
        searchResult' = <<BookResult(lastIssued)>>]_vars

====
